---- MODULE Spec2Model ----
(***************************************************************************)
(* State-machine model of federated-container/modules/networking/          *)
(* dante-container.js: the reachability probe, the credential loader, the  *)
(* restart orchestrator and the provisioning call, run by concurrent       *)
(* callers on one JavaScript event loop.  One action is one resumption of  *)
(* an async function: the awaited operation completes and the code runs    *)
(* synchronously up to its next await.  The awaited operation takes time:  *)
(* the step that completes it moves the clock, which the code reads on     *)
(* lines 42, 51 and 215.                                                   *)
(*                                                                         *)
(* Text (command output, error messages) is a sequence of tokens and       *)
(* String.includes is the search for a token.  A path is a record of its   *)
(* directory and the dot-separated segments of its file name.              *)
(***************************************************************************)
EXTENDS Integers, Sequences, FiniteSets, TLC

VARIABLES
    now,                        \* Date.now(), in ms
    waited,                     \* awaited commands that took time or timers
                                \* that fired off the due millisecond, and
                                \* 5-second delays that ran out, so far
    SERVER_PUBLIC_HOST,         \* process.env.SERVER_PUBLIC_HOST, or Unset
    password_files,             \* user names u with PASSWORD_DIR/u.password on disk
    used_marker_files,          \* user names u with PASSWORD_DIR/u.password.used on disk
    dante_config_initialised,   \* cache( 'dante_config_initialised' )
    worker_socks5_configs,      \* the lease store's credential records
    leases,                     \* every lease the store has granted
    history,                    \* restarts returned, loads completed and
                                \* credential sets handed to write_socks so far
    frame                       \* per caller: the locals of its running call

vars == << now, waited, SERVER_PUBLIC_HOST, password_files, used_marker_files,
           dante_config_initialised, worker_socks5_configs, leases, history, frame >>

----------------------------------------------------------------------------
\* Bounds of the model.

\* Calls each caller makes.
MaxCalls == 2

\* 5-second delays the clock may run through.
MaxWaits == 2

\* Awaited commands that take time and timers that fire off the due
\* millisecond, the others answering within the millisecond and firing on it.
MaxSlowCommands == 2

\* The concurrent callers.
Callers == { "c1", "c2" }

\* The credential files that may be on disk.
Users == { "alice", "bob" }

\* The lease durations a caller may ask for, in seconds.
LeaseSeconds == { 5, 10 }

\* Calls the concurrent callers make in all.
MaxConcurrentCalls == 2

\* Calls the caller that runs beside the operator makes.
MaxBesideCalls == 1

\* 5-second delays, and commands that take time or timers that fire off the
\* due millisecond, where two callers run.
MaxBesideWaits == 1

MaxBesideSlowCommands == 1

----------------------------------------------------------------------------
\* Program constants.

\* wait( 5000 )
RETRY_DELAY_MS == 5000

\* lease_seconds * 1000
MS_PER_SECOND == 1000

\* DANTE_PORT=1080
DANTE_PORT == 1080

\* max_wait_ms=Infinity
Infinity == -1

PASSWORD_DIR == "/passwords"

compose_files == << "docker-compose.yml", "docker-compose.ci.yml" >>

Unset == "undefined"

\* The value of a variable that holds no object.
Undefined == [ undefined |-> TRUE ]

----------------------------------------------------------------------------
\* Text.

\* String.prototype.includes on tokenised text.
Includes( text, token ) == \E i \in 1..Len( text ) : text[i] = token

\* Array.prototype.includes: an element equal to x.
ArrayIncludes( array, x ) == \E i \in 1..Len( array ) : array[i] = x

\* String.prototype.trim on tokenised text: blank tokens off both ends.
Blank == { " ", "\n" }

RECURSIVE TrimStart( _ )
TrimStart( text ) ==
    IF text # << >> /\ Head( text ) \in Blank THEN TrimStart( Tail( text ) ) ELSE text

RECURSIVE TrimEnd( _ )
TrimEnd( text ) ==
    IF text # << >> /\ text[ Len( text ) ] \in Blank
    THEN TrimEnd( SubSeq( text, 1, Len( text ) - 1 ) )
    ELSE text

Trim( text ) == TrimEnd( TrimStart( text ) )

LessThan_OrEqual( a, b ) == IF b = Infinity THEN TRUE ELSE a <= b

\* a < b where b may be Infinity.
LessThan( a, b ) == IF b = Infinity THEN TRUE ELSE a < b

Max( a, b ) == IF a < b THEN b ELSE a

\* The order in which `ls` lists the credential files.
UserOrder == << "alice", "bob" >>

\* The entries of a directory listing that name a user of S, in `ls` order.
Listing( S ) == SelectSeq( UserOrder, LAMBDA u : u \in S )

----------------------------------------------------------------------------
\* The disk.

AuthPath( u ) == [ dir |-> PASSWORD_DIR, file |-> << u, "password" >> ]

UsedPath( u ) == [ dir |-> PASSWORD_DIR, file |-> << u, "password", "used" >> ]

\* The content of a credential file: bob's is empty but for a line break.
FileContent( u ) ==
    IF u = "alice" THEN << "s3cret-alice", "\n" >> ELSE << "\n" >>

\* auth_path.split( '/' ).pop().replace( '.password', '' ): the file name
\* without its first ".password".
RECURSIVE DropFirstPassword( _ )
DropFirstPassword( segments ) ==
    IF segments = << >> THEN << >>
    ELSE IF Head( segments ) = "password" THEN Tail( segments )
    ELSE << Head( segments ) >> \o DropFirstPassword( Tail( segments ) )

Username( auth_path ) ==
    LET filename == auth_path.file
        rest     == << Head( filename ) >> \o DropFirstPassword( Tail( filename ) )
    IN  IF Len( rest ) = 1 THEN rest[1] ELSE rest

\* The line break that ends the output of `ls` and of `echo ""`.
BlankLine == [ dir |-> "", file |-> << >> ]

\* stdout of `ls -d1 PASSWORD_DIR/*.password`: one path per line.
LsAuthStdout ==
    [ i \in 1..Len( Listing( password_files ) ) |-> AuthPath( Listing( password_files )[i] ) ]
        \o << BlankLine >>

\* stdout of `ls -d1 PASSWORD_DIR/*.password.used || echo ""`.
LsUsedStdout ==
    [ i \in 1..Len( Listing( used_marker_files ) ) |-> UsedPath( Listing( used_marker_files )[i] ) ]
        \o << BlankLine >>

\* stdout.split( '\n' ).filter( f => !!`${ f }`.trim().length )
ParseFileList( stdout ) == SelectSeq( stdout, LAMBDA line : line # BlankLine )

\* stdout of `cat auth_path`.
CatStdout( auth_path ) == FileContent( Head( auth_path.file ) )

----------------------------------------------------------------------------
\* Errors and results.

Error( message ) == [ type |-> "Error", message |-> message ]

TypeError( message ) == [ type |-> "TypeError", message |-> message ]

Pending == [ kind |-> "pending", value |-> Undefined, error |-> Undefined ]

Returned( value ) == [ kind |-> "returned", value |-> value, error |-> Undefined ]

Threw( error ) == [ kind |-> "threw", value |-> Undefined, error |-> error ]

Finish( f, result ) == [ f EXCEPT !.pc = "done", !.result = result ]

----------------------------------------------------------------------------
\* The lease store (modules/database/worker_socks5.js).

\* write_socks: the records handed over supersede the table.
write_socks( socks ) == { socks[i] : i \in 1..Len( socks ) }

\* count_available_socks
count_available_socks( table ) ==
    Cardinality( { s \in table : s.available } )

\* register_socks5_lease: what the store may answer.  It grants an
\* available record, or reports failure: none is available, or the store
\* fails, with or without a record in its answer.
register_socks5_lease( table ) ==
    { [ success |-> TRUE, error |-> Unset, sock |-> s ] :
        s \in { r \in table : r.available } }
    \cup { [ success |-> FALSE, error |-> "store unavailable", sock |-> s ] :
        s \in { r \in table : r.available } }
    \cup IF { r \in table : r.available } = {}
         THEN { [ success |-> FALSE, error |-> "No available socks", sock |-> Undefined ] }
         ELSE { [ success |-> FALSE, error |-> "store unavailable", sock |-> Undefined ] }

\* The table after the store has granted `sock`.
MarkLeased( table, sock ) ==
    ( table \ { sock } ) \cup { [ sock EXCEPT !.available = FALSE ] }

\* A lease is active until its expiry.
Active( lease ) == lease.expires_at > now

----------------------------------------------------------------------------
\* A caller's frame: the locals of the call it runs (named as in the source)
\* and, in the h_ fields, the history of that call.

NewFrame( c, op ) ==
    [ op |-> op, pc |-> "start", call |-> frame[c].call + 1,
      \* dante_server_ready
      max_wait_ms |-> Infinity, start_time |-> 0, time_passed |-> 0,
      reachable |-> FALSE, wake |-> 0,
      \* load_socks5_from_disk
      auth_files |-> << >>, used_auth_files |-> << >>, socks |-> << >>,
      \* restart_dante_container
      compose_index |-> 1, restart_success |-> FALSE, last_error |-> Undefined,
      \* get_valid_socks5_config
      lease_seconds |-> 0, expires_at |-> 0, available_socks_count |-> 0,
      result |-> Pending,
      \* history
      h_call_time |-> now,        \* the time at which the call was made
      h_epoch |-> history.restarts,  \* restarts that had returned when the call was made
      h_expiry_time |-> 0,        \* the time at which expires_at was computed
      h_probes |-> 0,             \* probe commands issued
      h_probe |-> Undefined,      \* how the last probe command of the wait ended
      h_reachable |-> << >>,      \* what each check_if_dante_reachable of the wait returned
      h_waits |-> 0,              \* 5-second delays started
      h_flags |-> << >>,          \* the readiness flag as read on line 211
      h_loaded |-> 0,             \* history.loaded when the flag was read
      h_loads |-> 0,              \* load_socks5_from_disk invocations
      h_load_epoch |-> 0,         \* restarts that had returned when the load began
      h_load |-> Undefined,       \* what the last load returned
      h_write |-> Undefined,      \* what write_socks answered
      h_counts |-> << >>,         \* the counts count_available_socks returned
      h_restarts |-> 0,           \* restart_dante_container invocations
      h_cached |-> FALSE,         \* the readiness flag when the restart began
      h_commands |-> << >>,       \* restart commands run, with their outcome
      h_reprobe |-> << >>,        \* what the probe after the restart returned
      h_registers |-> << >>,      \* the expires_at of each register_socks5_lease
      h_lease |-> Undefined ]     \* what register_socks5_lease answered

IdleFrame ==
    [ op |-> "none", pc |-> "done", call |-> 0,
      max_wait_ms |-> Infinity, start_time |-> 0, time_passed |-> 0,
      reachable |-> FALSE, wake |-> 0,
      auth_files |-> << >>, used_auth_files |-> << >>, socks |-> << >>,
      compose_index |-> 1, restart_success |-> FALSE, last_error |-> Undefined,
      lease_seconds |-> 0, expires_at |-> 0, available_socks_count |-> 0,
      result |-> Pending,
      h_call_time |-> 0, h_epoch |-> 0, h_expiry_time |-> 0, h_probes |-> 0, h_probe |-> Undefined,
      h_reachable |-> << >>, h_waits |-> 0, h_flags |-> << >>, h_loaded |-> 0, h_loads |-> 0,
      h_load_epoch |-> 0,
      h_load |-> Undefined, h_write |-> Undefined, h_counts |-> << >>,
      h_restarts |-> 0, h_cached |-> FALSE, h_commands |-> << >>, h_reprobe |-> << >>,
      h_registers |-> << >>, h_lease |-> Undefined ]

----------------------------------------------------------------------------
\* get_valid_socks5_config, from the end of the load on.

ExpiresAt_InSeconds( t, lease_seconds ) == t + lease_seconds

\* now + lease_seconds * 1000
ExpiresAt( t, lease_seconds ) == t + lease_seconds * MS_PER_SECOND

\* Lines 214-216: the expiry is computed and the count is asked for.
FormulateConfig( f, t ) ==
    [ f EXCEPT !.expires_at = ExpiresAt( t, f.lease_seconds ), !.pc = "g_count",
               !.h_expiry_time = t ]

\* Line 231: the lease is asked for.
RequestLease( f ) ==
    [ f EXCEPT !.pc = "g_register", !.h_registers = Append( @, f.expires_at ) ]

\* Lines 131-141.
EnterRestart( f ) ==
    [ f EXCEPT !.pc = "r_compose", !.compose_index = 1, !.restart_success = FALSE,
               !.last_error = Undefined, !.h_restarts = @ + 1,
               !.h_cached = dante_config_initialised ]

\* Line 220: a zero count starts the restart, any other asks for the lease.
AfterFirstCount( f ) ==
    IF f.available_socks_count = 0
    THEN EnterRestart( f )
    ELSE RequestLease( f )

AfterSecondCount_Unchecked( f ) == RequestLease( f )

\* Line 227: a count still zero after the restart ends the call.
AfterSecondCount( f ) ==
    IF f.available_socks_count = 0
    THEN Finish( f, Threw( Error( << "No available socks after restarting Dante container" >> ) ) )
    ELSE RequestLease( f )

AfterReprobe_FailsIfUnreachable( f, reachable ) ==
    IF reachable
    THEN [ f EXCEPT !.pc = "g_count2", !.h_reprobe = Append( @, reachable ) ]
    ELSE Finish( [ f EXCEPT !.h_reprobe = Append( @, reachable ) ],
                 Threw( Error( << "Dante not reachable after restart" >> ) ) )

\* Lines 223-224: what check_if_dante_reachable returned is not looked at;
\* the count is asked for again.
AfterReprobe( f, reachable ) ==
    [ f EXCEPT !.pc = "g_count2", !.h_reprobe = Append( @, reachable ) ]

\* Lines 232-243: the store's answer is logged, checked and returned.
AfterRegister( f, answer ) ==
    IF answer.sock = Undefined
    THEN Finish( f, Threw( TypeError( << "Cannot read properties of undefined (reading 'username')" >> ) ) )
    ELSE IF ~ answer.success
    THEN Finish( f, Threw( Error( << "Error leasing SOCKS5 config: ", answer.error >> ) ) )
    ELSE Finish( f, Returned( [ socks5_config |->
                                    [ username   |-> answer.sock.username,
                                      password   |-> answer.sock.password,
                                      ip_address |-> answer.sock.ip_address,
                                      port       |-> answer.sock.port ],
                                expires_at |-> f.expires_at ] ) )

----------------------------------------------------------------------------
\* load_socks5_from_disk

Available_FromStore( used_auth_files, auth_path ) ==
    ~ \E s \in worker_socks5_configs :
          s.username = Username( auth_path ) /\ ~ s.available

\* Line 91: available = !used_auth_files.includes( auth_path )
Available( used_auth_files, auth_path ) == ~ ArrayIncludes( used_auth_files, auth_path )

\* Lines 86-107: the record built from one credential file.
MakeSock( auth_path, used_auth_files ) ==
    [ ip_address |-> SERVER_PUBLIC_HOST,
      port       |-> DANTE_PORT,
      username   |-> Username( auth_path ),
      password   |-> Trim( CatStdout( auth_path ) ),
      available  |-> Available( used_auth_files, auth_path ) ]

\* The load returns: to its caller, or into get_valid_socks5_config, which
\* goes on whatever the load returned (line 212).
LoadReturns( f, outcome, t ) ==
    IF f.op = "load"
    THEN Finish( [ f EXCEPT !.h_load = outcome ], Returned( outcome ) )
    ELSE FormulateConfig( [ f EXCEPT !.auth_files = << >>, !.used_auth_files = << >>,
                                     !.socks = << >>, !.h_load = outcome ], t )

\* Lines 119-122: the catch.
LoadCatches( f, e, t ) ==
    LoadReturns( f, [ success |-> FALSE, error |-> e.message ], t )

\* Lines 112-116: what follows the await of write_socks.
LoadAfterWrite( answer ) == [ initialised |-> TRUE, outcome |-> [ success |-> TRUE, error |-> Unset ] ]

\* Lines 66-75: the load starts by listing the credential files.
EnterLoad( f ) ==
    [ f EXCEPT !.pc = "l_ls", !.h_loads = @ + 1, !.h_load_epoch = history.restarts ]

----------------------------------------------------------------------------
\* dante_server_ready and check_if_dante_reachable

\* Lines 21-22: outputs.includes( 'succeeded' )
Outputs( stdout, stderr ) == << "stdout:" >> \o stdout \o << ",", "stderr:" >> \o stderr

\* What the probe command may do: `run` resolves with its output when it
\* exits with 0 and rejects otherwise.
ProbeResults ==
    { [ rejects |-> FALSE, stdout |-> << >>,
        stderr |-> << "Connection", "to", "host", "port", "[tcp/*]", "succeeded" >> ],
      [ rejects |-> FALSE, stdout |-> << "succeeded" >>, stderr |-> << >> ],
      [ rejects |-> FALSE, stdout |-> << >>, stderr |-> << >> ],
      [ rejects |-> FALSE, stdout |-> << >>,
        stderr |-> << "Warning:", "inverse", "host", "lookup", "failed" >> ],
      [ rejects |-> TRUE, stdout |-> << >>, stderr |-> << "Connection", "refused" >> ] }

check_if_dante_reachable_ExitStatus( probe ) == ~ probe.rejects

\* Lines 20-29: the value check_if_dante_reachable returns.
check_if_dante_reachable( probe ) ==
    IF probe.rejects THEN FALSE
    ELSE Includes( Outputs( probe.stdout, probe.stderr ), "succeeded" )

ReadyReturns_AlwaysLoads( f, t ) ==
    IF f.op = "ready"
    THEN Finish( f, Returned( f.reachable ) )
    ELSE EnterLoad( [ f EXCEPT !.start_time = 0, !.time_passed = 0, !.wake = 0,
                               !.h_probe = Undefined,
                               !.h_flags = Append( @, dante_config_initialised ),
                               !.h_loaded = history.loaded ] )

\* dante_server_ready returns: to its caller, or into
\* get_valid_socks5_config, which loads the pool if the flag is not set
\* (lines 211-212).
ReadyReturns( f, t ) ==
    IF f.op = "ready"
    THEN Finish( f, Returned( f.reachable ) )
    ELSE LET g == [ f EXCEPT !.start_time = 0, !.time_passed = 0, !.wake = 0,
                             !.h_probe = Undefined,
                             !.h_flags = Append( @, dante_config_initialised ),
                             !.h_loaded = history.loaded ]
         IN  IF ~ dante_config_initialised THEN EnterLoad( g ) ELSE FormulateConfig( g, t )

AfterProbe_GivesUp( f, reachable, t ) ==
    ReadyReturns( [ f EXCEPT !.reachable = reachable,
                             !.h_reachable = Append( @, reachable ) ], t )

\* Line 48: the loop test, after a probe has returned.
AfterProbe( f, reachable, t ) ==
    LET g == [ f EXCEPT !.reachable = reachable, !.h_reachable = Append( @, reachable ) ]
    IN  IF ~ reachable /\ LessThan( g.time_passed, g.max_wait_ms )
        THEN [ g EXCEPT !.pc = "wait", !.wake = t + RETRY_DELAY_MS, !.h_waits = @ + 1 ]
        ELSE ReadyReturns( g, t )

\* Lines 15-20: check_if_dante_reachable up to its await.  Without a host
\* it throws, catches and returns false at once.
HostMissing == SERVER_PUBLIC_HOST = Unset

StartProbe( f, t ) ==
    IF HostMissing
    THEN AfterProbe( f, FALSE, t )
    ELSE [ f EXCEPT !.pc = "probe", !.h_probes = @ + 1 ]

Elapsed_Frozen( t, start_time ) == 0

\* Line 51: time_passed = Date.now() - start_time
Elapsed( t, start_time ) == t - start_time

\* Lines 42-47.
EnterReady( f, max_wait_ms, t ) ==
    StartProbe( [ f EXCEPT !.max_wait_ms = max_wait_ms, !.start_time = t,
                           !.time_passed = 0 ], t )

----------------------------------------------------------------------------
\* restart_dante_container

\* Line 145: the restart command of one compose file.
ComposeCommand( compose_file ) == << "docker compose -f", compose_file, "restart dante" >>

\* Line 159.
DirectCommand == << "docker restart dante" >>

AfterComposeLoop_AlwaysDirect( f ) == [ f EXCEPT !.pc = "r_direct" ]

\* Line 156: the direct restart is tried if no compose restart succeeded.
AfterComposeLoop( f ) ==
    IF ~ f.restart_success THEN [ f EXCEPT !.pc = "r_direct" ] ELSE [ f EXCEPT !.pc = "r_mark" ]

\* Lines 143-153: one turn of the loop over compose_files.  A success
\* breaks out of it, a failure is kept in last_error and the loop goes on.
ComposeTurn( f, ok ) ==
    LET g == [ f EXCEPT !.h_commands =
                   Append( @, [ command |-> ComposeCommand( compose_files[ f.compose_index ] ),
                                ok |-> ok ] ) ]
    IN  IF ok
        THEN AfterComposeLoop( [ g EXCEPT !.restart_success = TRUE ] )
        ELSE LET h == [ g EXCEPT !.last_error = Error( << "Command failed" >> ),
                                 !.compose_index = @ + 1 ]
             IN  IF h.compose_index <= Len( compose_files )
                 THEN h
                 ELSE AfterComposeLoop( h )

\* What `docker restart dante` may hand to the callback of exec.
DirectResults ==
    { [ error |-> Undefined, stdout |-> << "dante" >>, stderr |-> << >> ],
      [ error |-> Undefined, stdout |-> << "dante" >>, stderr |-> << "warning" >> ],
      [ error |-> Error( << "Command failed" >> ), stdout |-> << >>,
        stderr |-> << "client version is too new. Maximum supported", "API version", "is 1.41" >> ],
      [ error |-> Error( << "client version is", "too old" >> ), stdout |-> << >>, stderr |-> << >> ],
      [ error |-> Error( << "Command failed" >> ), stdout |-> << >>,
        stderr |-> << "No such container: dante" >> ] }

\* Lines 159-173: how the callback settles the promise.
ExecCallback( r ) ==
    IF r.error # Undefined
    THEN LET error_msg == r.error.message \o r.stderr
         IN  IF Includes( error_msg, "API version" ) \/ Includes( error_msg, "too old" )
             THEN [ kind |-> "resolve",
                    value |-> << "API version warning (non-fatal): " >> \o error_msg ]
             ELSE [ kind |-> "reject", value |-> r.error ]
    ELSE IF r.stderr # << >>
    THEN [ kind |-> "reject", value |-> r.stderr ]
    ELSE [ kind |-> "resolve", value |-> r.stdout ]

DirectCatches_Rethrows( f, e ) == Finish( f, Threw( e ) )

\* Lines 177-179: the catch of the direct restart logs the error.
DirectCatches( f, e ) == [ f EXCEPT !.pc = "r_mark" ]

\* Lines 157-179: the direct restart.
DirectRestart( f, r ) ==
    LET settled == ExecCallback( r )
        g == [ f EXCEPT !.h_commands =
                   Append( @, [ command |-> DirectCommand, ok |-> settled.kind = "resolve" ] ) ]
    IN  IF settled.kind = "resolve"
        THEN [ g EXCEPT !.restart_success = TRUE, !.pc = "r_mark" ]
        ELSE DirectCatches( g, settled.value )

CacheAfterRestart_KeepsFlag( restart_success, cached ) == cached

CacheAfterRestart_OnlyOnSuccess( restart_success, cached ) ==
    IF restart_success THEN FALSE ELSE cached

\* Lines 183-190: the flag after the restart, given the flag before it.
CacheAfterRestart( restart_success, cached ) ==
    IF restart_success THEN FALSE ELSE FALSE

\* The restart returns: to its caller, or into get_valid_socks5_config,
\* which probes once (line 223) and asks for the count again.
RestartReturns( f ) ==
    IF f.op = "restart"
    THEN Finish( f, Returned( Undefined ) )
    ELSE LET g == [ f EXCEPT !.compose_index = 1, !.restart_success = FALSE,
                             !.last_error = Undefined ]
         IN  IF HostMissing
             THEN [ g EXCEPT !.pc = "g_count2" ]
             ELSE [ g EXCEPT !.pc = "g_reprobe", !.h_probes = @ + 1 ]

----------------------------------------------------------------------------
\* The state after construction: nothing is cached, no call runs.  The
\* environment and the disk are any the deployment may have.

Hosts == { Unset, "203.0.113.7" }

\* The history once the load of frame f has returned: `loaded` is the
\* latest restart count at which a load that has since returned began.
HistoryAfterLoad( f ) == [ history EXCEPT !.loaded = Max( @, f.h_load_epoch ) ]

\* The history once `socks` has been handed to write_socks.
HistoryAfterHandover( socks ) == [ history EXCEPT !.written = @ \cup { socks } ]

\* The history once a restart has returned.
HistoryAfterRestart == [ history EXCEPT !.restarts = @ + 1 ]

\* The bounds a caller of dante_server_ready may give.
MaxWaitChoices == { 0, RETRY_DELAY_MS, Infinity }

\* The finite ones.
FiniteWaitChoices == MaxWaitChoices \ { Infinity }

\* How long an awaited command or store request may take, in ms: it
\* answers within the millisecond, after 1 ms, after 3 s, or after the 10 s
\* at which nc gives up (-w 10, line 18).
CommandTimes == { 0, 1, 3000, 10000 }

\* What Date.now() reads when the timer of wait( 5000 ) has fired, against
\* the time at which the timer was due: the millisecond before it, the due
\* time, or later.
TimerDrift == { -1, 0, 1 }

\* A timer of wait( 5000 ) that is due before the timer of caller c is still
\* pending: timers fire in the order in which they are due.
EarlierTimerPending( c ) ==
    \E k \in Callers : frame[k].pc = "wait" /\ frame[k].wake < frame[c].wake

\* The times the commands of a run may take, what the clock reads when a
\* timer has fired and how often the clock may move: for one caller, for
\* one caller every call of which is to end, and for two callers, where a
\* command of one may end after the timer of the other was due.
Pace ==
    [ times |-> CommandTimes, drift |-> TimerDrift,
      commands |-> MaxSlowCommands, delays |-> MaxWaits ]

ReadyPace == [ Pace EXCEPT !.delays = 2 * MaxCalls ]

BesidePace ==
    [ times |-> { 0, 10000 }, drift |-> TimerDrift,
      commands |-> MaxBesideSlowCommands, delays |-> MaxBesideWaits ]

\* Date.now() as the next reader finds it (lines 42, 51, 215): d ms have
\* passed since the last step of the event loop, while the awaited command
\* ran.  The command may end after a timer was due and before that timer's
\* callback runs.
TimePasses( d, pace ) ==
    /\ d > 0 => waited.commands < pace.commands
    /\ now' = now + d
    /\ waited' = IF d > 0 THEN [ waited EXCEPT !.commands = @ + 1 ] ELSE waited

\* What write_socks may answer.
WriteAnswers ==
    { [ success |-> TRUE, error |-> Unset ],
      [ success |-> FALSE, error |-> "store unavailable" ] }

Init ==
    /\ now = 0
    /\ waited = [ commands |-> 0, delays |-> 0 ]
    /\ SERVER_PUBLIC_HOST \in Hosts
    /\ password_files \in SUBSET Users
    /\ used_marker_files \in SUBSET password_files
    /\ dante_config_initialised = FALSE
    /\ worker_socks5_configs = {}
    /\ leases = {}
    /\ history = [ restarts |-> 0, loaded |-> 0, written |-> {} ]
    /\ frame = [ c \in Callers |-> IdleFrame ]

CanCall( c ) == frame[c].pc = "done" /\ frame[c].call < MaxCalls

----------------------------------------------------------------------------
\* The calls.

\* get_valid_socks5_config( { lease_seconds } ), lines 204-207.
CallGetValidSocks5Config( c, durations ) ==
    /\ CanCall( c )
    /\ \E lease_seconds \in durations :
         frame' = [ frame EXCEPT ![c] =
             EnterReady( [ NewFrame( c, "get" ) EXCEPT !.lease_seconds = lease_seconds ],
                         Infinity, now ) ]
    /\ UNCHANGED << now, waited, SERVER_PUBLIC_HOST, password_files, used_marker_files,
                    dante_config_initialised, worker_socks5_configs, leases, history >>

\* dante_server_ready( { max_wait_ms } ), lines 39-47, with a bound of `choices`.
CallDanteServerReadyWith( c, choices ) ==
    /\ CanCall( c )
    /\ \E max_wait_ms \in choices :
         frame' = [ frame EXCEPT ![c] = EnterReady( NewFrame( c, "ready" ), max_wait_ms, now ) ]
    /\ UNCHANGED << now, waited, SERVER_PUBLIC_HOST, password_files, used_marker_files,
                    dante_config_initialised, worker_socks5_configs, leases, history >>

CallDanteServerReady( c ) == CallDanteServerReadyWith( c, MaxWaitChoices )

\* load_socks5_from_disk(), lines 66-75.
CallLoadSocks5FromDisk( c ) ==
    /\ CanCall( c )
    /\ frame' = [ frame EXCEPT ![c] = EnterLoad( NewFrame( c, "load" ) ) ]
    /\ UNCHANGED << now, waited, SERVER_PUBLIC_HOST, password_files, used_marker_files,
                    dante_config_initialised, worker_socks5_configs, leases, history >>

\* restart_dante_container(), lines 131-145.
CallRestartDanteContainer( c ) ==
    /\ CanCall( c )
    /\ frame' = [ frame EXCEPT ![c] = EnterRestart( NewFrame( c, "restart" ) ) ]
    /\ UNCHANGED << now, waited, SERVER_PUBLIC_HOST, password_files, used_marker_files,
                    dante_config_initialised, worker_socks5_configs, leases, history >>

----------------------------------------------------------------------------
\* dante_server_ready

\* Lines 20-24, 47-48, 52: the probe command ends.
Probe( c, pace ) ==
    /\ frame[c].pc = "probe"
    /\ \E d \in pace.times : TimePasses( d, pace )
    /\ \E probe \in ProbeResults :
         frame' = [ frame EXCEPT ![c] =
             AfterProbe( [ frame[c] EXCEPT !.h_probe = probe ],
                         check_if_dante_reachable( probe ), now' ) ]
    /\ UNCHANGED << SERVER_PUBLIC_HOST, password_files, used_marker_files,
                    dante_config_initialised, worker_socks5_configs, leases, history >>

\* Lines 50-52: the 5 seconds have passed.
Wait( c, pace ) ==
    /\ frame[c].pc = "wait"
    /\ waited.delays < pace.delays
    /\ ~ EarlierTimerPending( c )
    /\ \E drift \in pace.drift :
         /\ drift # 0 => waited.commands < pace.commands
         /\ now' = Max( now, frame[c].wake + drift )
         /\ waited' = [ waited EXCEPT !.delays = @ + 1,
                                      !.commands = IF drift # 0 THEN @ + 1 ELSE @ ]
    /\ frame' = [ frame EXCEPT ![c] =
           StartProbe( [ frame[c] EXCEPT !.time_passed = Elapsed( now', frame[c].start_time ) ],
                       now' ) ]
    /\ UNCHANGED << SERVER_PUBLIC_HOST, password_files, used_marker_files,
                    dante_config_initialised, worker_socks5_configs, leases, history >>

----------------------------------------------------------------------------
\* load_socks5_from_disk

\* Lines 75-76: the credential files are listed; `ls` fails if there is none.
ListAuthFiles( c, pace ) ==
    /\ frame[c].pc = "l_ls"
    /\ \E d \in pace.times : TimePasses( d, pace )
    /\ frame' = [ frame EXCEPT ![c] =
           IF password_files = {}
           THEN LoadCatches( frame[c], Error( << "Command failed: ls" >> ), now' )
           ELSE [ frame[c] EXCEPT !.auth_files = LsAuthStdout, !.pc = "l_used" ] ]
    /\ history' = IF password_files = {} THEN HistoryAfterLoad( frame[c] ) ELSE history
    /\ UNCHANGED << SERVER_PUBLIC_HOST, password_files, used_marker_files,
                    dante_config_initialised, worker_socks5_configs, leases >>

\* Lines 76-94: the used markers are listed, both lists are parsed and the
\* credential files are read.
ListUsedFiles( c, pace ) ==
    /\ frame[c].pc = "l_used"
    /\ \E d \in pace.times : TimePasses( d, pace )
    /\ frame' = [ frame EXCEPT ![c] =
           [ frame[c] EXCEPT !.auth_files = ParseFileList( @ ),
                             !.used_auth_files = ParseFileList( LsUsedStdout ),
                             !.pc = "l_cat" ] ]
    /\ UNCHANGED << SERVER_PUBLIC_HOST, password_files, used_marker_files,
                    dante_config_initialised, worker_socks5_configs, leases, history >>

\* Lines 84-112: the files are read (or a read fails), the records are
\* built and handed to write_socks.
ReadPasswords( c, pace ) ==
    /\ frame[c].pc = "l_cat"
    /\ \E d \in pace.times : TimePasses( d, pace )
    /\ \E read_ok \in BOOLEAN :
         /\ frame' = [ frame EXCEPT ![c] =
                IF read_ok
                THEN [ frame[c] EXCEPT
                         !.socks = [ i \in 1..Len( frame[c].auth_files ) |->
                                       MakeSock( frame[c].auth_files[i], frame[c].used_auth_files ) ],
                         !.pc = "l_write" ]
                ELSE LoadCatches( frame[c], Error( << "Command failed: cat" >> ), now' ) ]
         /\ history' = IF read_ok
                        THEN HistoryAfterHandover( frame'[c].socks )
                        ELSE HistoryAfterLoad( frame[c] )
    /\ UNCHANGED << SERVER_PUBLIC_HOST, password_files, used_marker_files,
                    dante_config_initialised, worker_socks5_configs, leases >>

\* Lines 112-116: write_socks answers.
WriteSocks( c, pace ) ==
    /\ frame[c].pc = "l_write"
    /\ \E d \in pace.times : TimePasses( d, pace )
    /\ \E answer \in WriteAnswers :
         LET after == LoadAfterWrite( answer )
         IN  /\ worker_socks5_configs' =
                    IF answer.success THEN write_socks( frame[c].socks )
                    ELSE worker_socks5_configs
             /\ dante_config_initialised' =
                    IF after.initialised THEN TRUE ELSE dante_config_initialised
             /\ frame' = [ frame EXCEPT ![c] =
                    LoadReturns( [ frame[c] EXCEPT !.h_write = answer ], after.outcome, now' ) ]
    /\ history' = HistoryAfterLoad( frame[c] )
    /\ UNCHANGED << SERVER_PUBLIC_HOST, password_files, used_marker_files, leases >>

----------------------------------------------------------------------------
\* restart_dante_container

\* The frame after a step of the restart; the step that ends the restart
\* sets the flag (lines 183-190) and returns.
RestartStep( c, g ) ==
    IF g.pc = "r_mark"
    THEN /\ dante_config_initialised' =
                CacheAfterRestart( g.restart_success, dante_config_initialised )
         /\ history' = HistoryAfterRestart
         /\ frame' = [ frame EXCEPT ![c] = RestartReturns( g ) ]
    ELSE /\ dante_config_initialised' = dante_config_initialised
         /\ history' = history
         /\ frame' = [ frame EXCEPT ![c] = g ]

\* Lines 143-153: a compose restart ends.
ComposeRestart( c, pace ) ==
    /\ frame[c].pc = "r_compose"
    /\ \E d \in pace.times : TimePasses( d, pace )
    /\ \E ok \in BOOLEAN : RestartStep( c, ComposeTurn( frame[c], ok ) )
    /\ UNCHANGED << SERVER_PUBLIC_HOST, password_files, used_marker_files,
                    worker_socks5_configs, leases >>

\* Lines 157-179: the direct restart ends.
DirectRestartEnds( c, pace ) ==
    /\ frame[c].pc = "r_direct"
    /\ \E d \in pace.times : TimePasses( d, pace )
    /\ \E r \in DirectResults : RestartStep( c, DirectRestart( frame[c], r ) )
    /\ UNCHANGED << SERVER_PUBLIC_HOST, password_files, used_marker_files,
                    worker_socks5_configs, leases >>

----------------------------------------------------------------------------
\* get_valid_socks5_config

\* Lines 216-222, 231: the first count arrives.
FirstCount( c, pace ) ==
    /\ frame[c].pc = "g_count"
    /\ \E d \in pace.times : TimePasses( d, pace )
    /\ LET n == count_available_socks( worker_socks5_configs )
       IN  frame' = [ frame EXCEPT ![c] =
               AfterFirstCount( [ frame[c] EXCEPT !.available_socks_count = n,
                                                  !.h_counts = Append( @, n ) ] ) ]
    /\ UNCHANGED << SERVER_PUBLIC_HOST, password_files, used_marker_files,
                    dante_config_initialised, worker_socks5_configs, leases, history >>

\* Lines 223-224: the probe after the restart ends; its result is dropped.
ProbeAfterRestart( c, pace ) ==
    /\ frame[c].pc = "g_reprobe"
    /\ \E d \in pace.times : TimePasses( d, pace )
    /\ \E probe \in ProbeResults :
         frame' = [ frame EXCEPT ![c] =
             AfterReprobe( frame[c], check_if_dante_reachable( probe ) ) ]
    /\ UNCHANGED << SERVER_PUBLIC_HOST, password_files, used_marker_files,
                    dante_config_initialised, worker_socks5_configs, leases, history >>

\* Lines 224-231: the second count arrives.
SecondCount( c, pace ) ==
    /\ frame[c].pc = "g_count2"
    /\ \E d \in pace.times : TimePasses( d, pace )
    /\ LET n == count_available_socks( worker_socks5_configs )
       IN  frame' = [ frame EXCEPT ![c] =
               AfterSecondCount( [ frame[c] EXCEPT !.available_socks_count = n,
                                                   !.h_counts = Append( @, n ) ] ) ]
    /\ UNCHANGED << SERVER_PUBLIC_HOST, password_files, used_marker_files,
                    dante_config_initialised, worker_socks5_configs, leases, history >>

\* Lines 231-243: register_socks5_lease answers, as one step of the store.
RegisterLease( c, pace ) ==
    /\ frame[c].pc = "g_register"
    /\ \E d \in pace.times : TimePasses( d, pace )
    /\ \E answer \in register_socks5_lease( worker_socks5_configs ) :
         /\ worker_socks5_configs' =
                IF answer.success THEN MarkLeased( worker_socks5_configs, answer.sock )
                ELSE worker_socks5_configs
         /\ leases' =
                IF answer.success
                THEN leases \cup { [ username |-> answer.sock.username,
                                     expires_at |-> frame[c].expires_at,
                                     caller |-> c, call |-> frame[c].call ] }
                ELSE leases
         /\ frame' = [ frame EXCEPT ![c] =
                AfterRegister( [ frame[c] EXCEPT !.h_lease = answer ], answer ) ]
    /\ UNCHANGED << SERVER_PUBLIC_HOST, password_files, used_marker_files,
                    dante_config_initialised, history >>

----------------------------------------------------------------------------

\* The steps of a running call.
Resume( c, pace ) ==
    \/ Probe( c, pace )
    \/ Wait( c, pace )
    \/ ListAuthFiles( c, pace )
    \/ ListUsedFiles( c, pace )
    \/ ReadPasswords( c, pace )
    \/ WriteSocks( c, pace )
    \/ ComposeRestart( c, pace )
    \/ DirectRestartEnds( c, pace )
    \/ FirstCount( c, pace )
    \/ ProbeAfterRestart( c, pace )
    \/ SecondCount( c, pace )
    \/ RegisterLease( c, pace )

\* One caller makes any of the four exported calls, one after the other.
Main == "c1"

Next ==
    \/ CallGetValidSocks5Config( Main, LeaseSeconds )
    \/ CallDanteServerReady( Main )
    \/ CallLoadSocks5FromDisk( Main )
    \/ CallRestartDanteContainer( Main )
    \/ Resume( Main, Pace )

Spec == Init /\ [][Next]_vars

\* One caller calls dante_server_ready with a finite bound, again and again.
\* A probe command ends (nc gives up after 10 seconds) and the timer of
\* wait( 5000 ) fires.
ReadyNext ==
    \/ CallDanteServerReadyWith( Main, FiniteWaitChoices )
    \/ Probe( Main, ReadyPace )
    \/ Wait( Main, ReadyPace )

ReadySpec ==
    /\ Init
    /\ [][ReadyNext]_vars
    /\ WF_vars( Probe( Main, ReadyPace ) )
    /\ WF_vars( Wait( Main, ReadyPace ) )

\* Concurrent callers of get_valid_socks5_config, on a host that is set and
\* a disk that holds every credential file and alice's used marker.
ConcurrentInit ==
    /\ Init
    /\ ~ HostMissing
    /\ password_files = Users
    /\ used_marker_files = { "alice" }

RECURSIVE CallsMade( _ )
CallsMade( S ) ==
    IF S = {} THEN 0
    ELSE LET c == CHOOSE x \in S : TRUE IN frame[c].call + CallsMade( S \ { c } )

ConcurrentCall( c ) ==
    /\ CallsMade( Callers ) < MaxConcurrentCalls
    /\ CallGetValidSocks5Config( c, { 5 } )

ConcurrentNext ==
    \E c \in Callers : ConcurrentCall( c ) \/ Resume( c, BesidePace )

ConcurrentSpec == ConcurrentInit /\ [][ConcurrentNext]_vars

\* An operator restarts the container and then calls
\* get_valid_socks5_config, while another caller runs
\* get_valid_socks5_config beside it.
Operator == "c2"

RaceCall( c ) ==
    \/ /\ c # Operator
       /\ frame[c].call < MaxBesideCalls
       /\ CallGetValidSocks5Config( c, { 5 } )
    \/ /\ c = Operator
       /\ frame[c].op = "none"
       /\ CallRestartDanteContainer( c )
    \/ /\ c = Operator
       /\ frame[c].op # "none"
       /\ CallGetValidSocks5Config( c, { 5 } )

RaceNext ==
    \E c \in Callers : RaceCall( c ) \/ Resume( c, BesidePace )

\* The directory holds every credential file and alice's used marker, or
\* no file at all.
RaceInit ==
    /\ Init
    /\ ~ HostMissing
    /\ password_files \in { {}, Users }
    /\ used_marker_files = password_files \cap { "alice" }

RaceSpec == RaceInit /\ [][RaceNext]_vars

----------------------------------------------------------------------------
\* The claims.

InRestart( f ) == f.pc \in { "r_compose", "r_direct" }

\* The restart of the call has returned.
RestartReturned( f ) == f.h_restarts > 0 /\ ~ InRestart( f ) /\ f.h_commands # << >>

NoSocksError == Error( << "No available socks after restarting Dante container" >> )

\* C1: no credential is leased to two callers whose leases are both still
\* unexpired.
C1_AtMostOneActiveLease ==
    \A l1 \in leases : \A l2 \in leases :
        ( l1 # l2 /\ l1.username = l2.username ) => ~ ( Active( l1 ) /\ Active( l2 ) )

\* C2: a call whose two counts are both zero fails with the "no available
\* socks" error and asks for no lease, and a lease is only asked for after
\* the latest count of the call was not zero.
C2_LeaseOnlyAfterNonZeroCount ==
    \A c \in Callers :
        LET f == frame[c]
        IN  f.op = "get" =>
              /\ f.h_registers # << >> =>
                    /\ f.h_counts # << >>
                    /\ f.h_counts[ Len( f.h_counts ) ] # 0
              /\ f.h_counts = << 0, 0 >> =>
                    /\ f.pc = "done"
                    /\ f.result = Threw( NoSocksError )
                    /\ f.h_registers = << >>

C2_Witness ==
    \E c \in Callers :
        /\ frame[c].op = "get"
        /\ frame[c].h_counts = << 0, 0 >>
        /\ frame[c].result = Threw( NoSocksError )

FirstCountNonZero( f ) == f.op = "get" /\ f.h_counts # << >> /\ f.h_counts[1] # 0

\* C3 as stated: with a first count that is not zero there is no restart,
\* and the one lease is asked for with the call time plus
\* lease_seconds * 1000, which is returned.
C3_ExpiryFromCallTime ==
    \A c \in Callers :
        LET f == frame[c]
        IN  FirstCountNonZero( f ) =>
              /\ f.h_restarts = 0
              /\ f.h_registers = << f.h_call_time + f.lease_seconds * 1000 >>
              /\ f.result.kind = "returned" =>
                    f.result.value.expires_at = f.h_call_time + f.lease_seconds * 1000

\* C3 as amended: with a first count that is not zero there is no restart,
\* and the one lease is asked for with the time at which line 215 ran plus
\* lease_seconds * 1000, which is returned; that time is the call time plus
\* the time the probes and the load took and at least 4999 ms for every
\* retry delay of the reachability wait, whose timer may fire when the clock
\* reads the millisecond before it is due.
C3_ExpiryFromComputationTime ==
    \A c \in Callers :
        LET f == frame[c]
        IN  FirstCountNonZero( f ) =>
              /\ f.h_restarts = 0
              /\ Len( f.h_counts ) = 1
              /\ f.h_registers = << f.h_expiry_time + f.lease_seconds * 1000 >>
              /\ f.h_expiry_time >= f.h_call_time + f.h_waits * ( RETRY_DELAY_MS - 1 )
              /\ f.result.kind = "returned" =>
                    f.result.value.expires_at = f.h_expiry_time + f.lease_seconds * 1000

C3_Witness ==
    \E c \in Callers :
        /\ FirstCountNonZero( frame[c] )
        /\ frame[c].h_waits > 0
        /\ frame[c].result.kind = "returned"
        /\ frame[c].result.value.expires_at = frame[c].h_call_time + 5000 + 10 * 1000

\* No probe failed, the probe command took 3 seconds, and the expiry
\* returned is 3 seconds later than the call time plus the lease.
C3_WitnessSlowProbe ==
    \E c \in Callers :
        /\ FirstCountNonZero( frame[c] )
        /\ frame[c].h_waits = 0
        /\ frame[c].h_expiry_time = frame[c].h_call_time + 3000
        /\ frame[c].result.kind = "returned"
        /\ frame[c].result.value.expires_at = frame[c].h_call_time + 3000 + 5 * 1000

\* One probe failed, the timer of the delay fired a millisecond early by
\* the clock, and the expiry returned is 4999 ms later than the call time
\* plus the lease.
C3_WitnessEarlyTimer ==
    \E c \in Callers :
        /\ FirstCountNonZero( frame[c] )
        /\ frame[c].h_waits = 1
        /\ frame[c].result.kind = "returned"
        /\ frame[c].result.value.expires_at = frame[c].h_call_time + 4999 + 5 * 1000

\* C4: a credential built by the load is available exactly when its
\* credential file has no used marker.
C4_AvailableIffNoMarker ==
    \A c \in Callers :
        LET f == frame[c]
        IN  f.pc = "l_write" =>
              /\ Len( f.socks ) = Cardinality( password_files )
              /\ \A i \in 1..Len( f.socks ) :
                    f.socks[i].available = ( f.socks[i].username \notin used_marker_files )

\* C5: the step in which restart_dante_container returns leaves the
\* readiness flag false.
C5_RestartLeavesFlagFalse ==
    [][ \A c \in Callers :
            ( InRestart( frame[c] ) /\ ~ InRestart( frame'[c] ) )
                => dante_config_initialised' = FALSE ]_vars

\* A restart that began with the flag set and whose three commands all
\* failed has returned.
C5_Witness ==
    \E c \in Callers :
        /\ RestartReturned( frame[c] )
        /\ frame[c].h_cached
        /\ Len( frame[c].h_commands ) = 3
        /\ ~ frame[c].h_commands[3].ok
        /\ dante_config_initialised = FALSE

RestartCommands ==
    << ComposeCommand( "docker-compose.yml" ), ComposeCommand( "docker-compose.ci.yml" ),
       DirectCommand >>

\* C6: the restart commands are run in the order compose yml, compose ci,
\* direct; none is run after one that succeeded, so the direct restart is
\* run only after both compose restarts failed; and the restart returns only
\* after a success or after all three.
C6_RestartOrder ==
    \A c \in Callers :
        LET log == frame[c].h_commands
        IN  /\ Len( log ) <= Len( RestartCommands )
            /\ \A i \in 1..Len( log ) :
                  /\ log[i].command = RestartCommands[i]
                  /\ i < Len( log ) => ~ log[i].ok
            /\ RestartReturned( frame[c] ) =>
                  log[ Len( log ) ].ok \/ Len( log ) = Len( RestartCommands )

\* File A failed, file B succeeded, and the restart has returned.
C6_Witness ==
    \E c \in Callers :
        /\ RestartReturned( frame[c] )
        /\ frame[c].h_commands =
              << [ command |-> ComposeCommand( "docker-compose.yml" ), ok |-> FALSE ],
                 [ command |-> ComposeCommand( "docker-compose.ci.yml" ), ok |-> TRUE ] >>

\* C7: restart_dante_container never raises: called on its own it returns,
\* and inside get_valid_socks5_config the call goes on to its second count.
C7_RestartNeverRaises ==
    \A c \in Callers :
        LET f == frame[c]
        IN  ( f.h_restarts > 0 /\ f.pc = "done" ) =>
              /\ f.op = "restart" => f.result = Returned( Undefined )
              /\ f.op = "get" => Len( f.h_counts ) = 2

\* Both compose restarts and the direct restart failed, and the call returned.
C7_Witness ==
    \E c \in Callers :
        /\ frame[c].op = "restart"
        /\ frame[c].pc = "done"
        /\ Len( frame[c].h_commands ) = 3
        /\ ~ frame[c].h_commands[3].ok
        /\ frame[c].result = Returned( Undefined )

\* C8: a load whose write_socks reported failure returns success:false and
\* does not set the readiness flag.
C8_StoreFailureIsLoadFailure ==
    \A c \in Callers :
        LET f == frame[c]
        IN  ( f.h_write # Undefined /\ ~ f.h_write.success ) =>
              /\ f.h_load # Undefined
              /\ ~ f.h_load.success

\* C9: a call whose register_socks5_lease reported failure fails with an
\* error that carries the store's error message.
C9_LeaseFailureCarriesStoreError ==
    \A c \in Callers :
        LET f == frame[c]
        IN  ( f.h_lease # Undefined /\ ~ f.h_lease.success ) =>
              f.result = Threw( Error( << "Error leasing SOCKS5 config: ", f.h_lease.error >> ) )

\* C10: without SERVER_PUBLIC_HOST a call of get_valid_socks5_config or of
\* dante_server_ready ends at once with an error, having probed, waited,
\* loaded and queried nothing.
C10_MissingHostIsFatal ==
    HostMissing =>
        \A c \in Callers :
            LET f == frame[c]
            IN  f.op \in { "get", "ready" } =>
                  /\ f.pc = "done"
                  /\ f.result.kind = "threw"
                  /\ f.h_probes = 0
                  /\ f.h_waits = 0
                  /\ f.h_loads = 0
                  /\ f.h_counts = << >>

\* All compose restarts failed and the direct restart was rejected.
HardRestartFailure( f ) ==
    /\ Len( f.h_commands ) = Len( RestartCommands )
    /\ \A i \in 1..Len( f.h_commands ) : ~ f.h_commands[i].ok

\* C11: a call of get_valid_socks5_config whose restart failed hard goes on:
\* it does not end before it has asked for the count again, it ends with
\* the "no available socks" error exactly when that count is zero, and with
\* any other count it asks for one lease and returns the credential the
\* store granted.
C11_HardRestartFailureNotFatal ==
    \A c \in Callers :
        LET f == frame[c]
        IN  ( f.op = "get" /\ HardRestartFailure( f ) ) =>
              /\ f.pc \in { "g_reprobe", "g_count2", "g_register", "done" }
              /\ f.pc = "done" => Len( f.h_counts ) = 2
              /\ Len( f.h_counts ) = 2 =>
                    /\ f.h_counts[2] = 0 <=> f.result = Threw( NoSocksError )
                    /\ f.h_counts[2] = 0 => f.h_registers = << >>
                    /\ f.h_counts[2] # 0 => f.h_registers = << f.expires_at >>
                    /\ ( f.h_lease # Undefined /\ f.h_lease.success ) =>
                          /\ f.result.kind = "returned"
                          /\ f.result.value.socks5_config.username = f.h_lease.sock.username

\* After a hard restart failure the second count was not zero and the call
\* returned a credential.
C11_Witness ==
    \E c \in Callers :
        /\ frame[c].op = "get"
        /\ HardRestartFailure( frame[c] )
        /\ Len( frame[c].h_counts ) = 2
        /\ frame[c].h_counts[1] = 0
        /\ frame[c].h_counts[2] # 0
        /\ frame[c].result.kind = "returned"

\* After a hard restart failure the second count was zero and the call failed.
C11_WitnessStillZero ==
    \E c \in Callers :
        /\ frame[c].op = "get"
        /\ HardRestartFailure( frame[c] )
        /\ frame[c].h_counts = << 0, 0 >>
        /\ frame[c].result = Threw( NoSocksError )

InLoad( f ) == f.pc \in { "l_ls", "l_used", "l_cat", "l_write" }

\* C12: get_valid_socks5_config reads the readiness flag once, after the
\* reachability wait; it invokes the load exactly when the flag it read was
\* false and skips it when the flag was true; and once the load has
\* returned, with success or with failure, the count has been asked for.
C12_LoadIffFlagFalse ==
    \A c \in Callers :
        LET f == frame[c]
        IN  f.op = "get" =>
              /\ Len( f.h_flags ) <= 1
              /\ f.h_flags = << >> => ( f.pc \in { "probe", "wait" } /\ f.h_loads = 0 )
              /\ f.h_flags = << FALSE >> => f.h_loads = 1
              /\ f.h_flags = << TRUE >> => ( f.h_loads = 0 /\ ~ InLoad( f ) )
              /\ f.h_loads = 1 =>
                    /\ InLoad( f ) <=> f.h_load = Undefined
                    /\ f.h_load # Undefined => ( f.pc = "g_count" \/ f.h_counts # << >> )
                    /\ f.pc = "done" => f.h_counts # << >>

\* The flag was read false, the load returned a failure and the count was
\* asked for and answered.
C12_Witness ==
    \E c \in Callers :
        /\ frame[c].op = "get"
        /\ frame[c].h_flags = << FALSE >>
        /\ frame[c].h_load # Undefined
        /\ ~ frame[c].h_load.success
        /\ frame[c].h_counts # << >>

\* The flag was read true, the load was skipped and the count was answered.
C12_WitnessSkipped ==
    \E c \in Callers :
        /\ frame[c].op = "get"
        /\ frame[c].h_flags = << TRUE >>
        /\ frame[c].h_loads = 0
        /\ frame[c].h_counts # << >>

\* C13: a call of dante_server_ready with max_wait_ms = 0 whose first probe
\* found the endpoint unreachable has returned false, after that one probe
\* and without a 5-second delay: no timer was set and the elapsed time was
\* never measured.
C13_ZeroWaitReturnsAtOnce ==
    \A c \in Callers :
        LET f == frame[c]
        IN  ( f.op = "ready" /\ f.max_wait_ms = 0
                /\ f.h_reachable # << >> /\ ~ f.h_reachable[1] ) =>
              /\ f.pc = "done"
              /\ f.result = Returned( FALSE )
              /\ f.h_reachable = << FALSE >>
              /\ f.h_probes <= 1
              /\ f.h_waits = 0
              /\ f.wake = 0
              /\ f.time_passed = 0

\* The probe command of such a call ran once, was refused after the 10
\* seconds nc allows, and the call returned false.
C13_Witness ==
    \E c \in Callers :
        /\ frame[c].op = "ready"
        /\ frame[c].max_wait_ms = 0
        /\ now = frame[c].h_call_time + 10000
        /\ frame[c].h_probes = 1
        /\ frame[c].h_reachable = << FALSE >>
        /\ frame[c].result = Returned( FALSE )

\* The success token is in what the probe command printed.
HasSuccessToken( probe ) ==
    Includes( probe.stdout, "succeeded" ) \/ Includes( probe.stderr, "succeeded" )

\* C14: check_if_dante_reachable returns true only for a probe command that
\* ended without error and printed the token 'succeeded' on stdout or
\* stderr; for output without the token and for a rejected command it
\* returns false, and the call that probed does not end with an error.
C14_ReachableOnlyOnSuccessToken ==
    \A c \in Callers :
        LET f == frame[c]
        IN  f.h_probe # Undefined =>
              LET returned == f.h_reachable[ Len( f.h_reachable ) ]
              IN  /\ returned => ( ~ f.h_probe.rejects /\ HasSuccessToken( f.h_probe ) )
                  /\ ~ HasSuccessToken( f.h_probe ) => ~ returned
                  /\ f.h_probe.rejects => ~ returned
                  /\ f.result.kind # "threw"

\* The probe command was rejected and dante_server_ready returned false.
C14_Witness ==
    \E c \in Callers :
        /\ frame[c].op = "ready"
        /\ frame[c].h_probe # Undefined
        /\ frame[c].h_probe.rejects
        /\ frame[c].result = Returned( FALSE )

\* The probe command printed the token on stderr and the answer was true.
C14_WitnessToken ==
    \E c \in Callers :
        /\ frame[c].h_probe # Undefined
        /\ Includes( frame[c].h_probe.stderr, "succeeded" )
        /\ frame[c].result = Returned( TRUE )

\* The probe command ended without error, printed a warning without the
\* token, and the answer was false.
C14_WitnessNoToken ==
    \E c \in Callers :
        /\ frame[c].h_probe # Undefined
        /\ ~ frame[c].h_probe.rejects
        /\ frame[c].h_probe.stderr # << >>
        /\ frame[c].result = Returned( FALSE )

\* C15: a call of get_valid_socks5_config made after a restart has returned
\* invokes the load before its first count, unless, when it reads the
\* flag, a load that began after that restart has already returned.
C15_RestartForcesReload ==
    \A c \in Callers :
        LET f == frame[c]
        IN  ( f.op = "get" /\ f.h_epoch >= 1 /\ f.h_flags # << >> ) =>
              ( f.h_loads = 1 \/ f.h_loaded >= f.h_epoch )

\* The load of frame f returns in this step.
LoadReturnsNow( c ) == InLoad( frame[c] ) /\ ~ InLoad( frame'[c] )

\* C16 as stated: every run of load_socks5_from_disk hands its credential
\* set to write_socks, the sets handed over so far are all equal, and the
\* run leaves the readiness flag true.
C16_EveryLoadWritesSameSet ==
    [][ \A c \in Callers :
            LoadReturnsNow( c ) =>
                /\ frame[c].pc = "l_write"
                /\ Cardinality( history'.written ) = 1
                /\ dante_config_initialised' ]_vars

\* C16 as amended: the credential sets handed to write_socks are all equal;
\* a run that returns from write_socks leaves the readiness flag true; a
\* run whose listing or read fails hands nothing more to write_socks,
\* returns success:false and leaves the flag as it was.
C16_LoadsThatWriteAreIdempotent ==
    [][ /\ Cardinality( history'.written ) <= 1
        /\ \A c \in Callers :
              LoadReturnsNow( c ) =>
                  IF frame[c].pc = "l_write"
                  THEN /\ dante_config_initialised'
                       /\ frame'[c].h_load.success
                       /\ history'.written = { frame[c].socks }
                  ELSE /\ ~ frame'[c].h_load.success
                       /\ dante_config_initialised' = dante_config_initialised
                       /\ history'.written = history.written ]_vars

\* Both callers found the flag unset, the loads of both run at once, and
\* both have handed the same credential set to write_socks.
C16_Witness ==
    /\ \A c \in Callers :
          /\ frame[c].op = "get"
          /\ frame[c].h_flags = << FALSE >>
          /\ frame[c].pc = "l_write"
    /\ history.written = { frame[Main].socks }

\* A load began after a restart that followed an earlier load, and has
\* returned from write_socks with the same credential set.
C16_WitnessSuccessive ==
    /\ history.loaded >= 1
    /\ \E c \in Callers : frame[c].h_load_epoch >= 1 /\ frame[c].h_write # Undefined
    /\ \E c \in Callers : frame[c].h_load_epoch = 0 /\ frame[c].h_write # Undefined
    /\ Cardinality( history.written ) = 1

\* The restart inside the call of caller c returns in this step.
RestartReturnsNow( c ) == InRestart( frame[c] ) /\ ~ InRestart( frame'[c] )

\* How a call that restarted the container may end: with the "no available
\* socks" error and no lease asked for, after a second count of zero, or
\* with one lease asked for, after a second count that was not zero.
EndsAfterRestart( f ) ==
    /\ Len( f.h_counts ) = 2
    /\ f.h_counts[1] = 0
    /\ \/ /\ f.h_counts[2] = 0
          /\ f.result = Threw( NoSocksError )
          /\ f.h_registers = << >>
       \/ /\ f.h_counts[2] # 0
          /\ f.h_registers = << f.expires_at >>
          /\ f.h_lease # Undefined

\* C17: with concurrent callers of get_valid_socks5_config, each of which
\* may have counted zero and restarted the container, no restart raises:
\* when a restart returns the readiness flag is false and its call goes on
\* to the probe and the second count; and a call that restarted ends either
\* with the "no available socks" error or after asking for one lease.
C17_ConcurrentRestartsAreSafe ==
    [][ \A c \in Callers :
            /\ RestartReturnsNow( c ) =>
                  /\ dante_config_initialised' = FALSE
                  /\ frame'[c].pc = "g_reprobe"
                  /\ frame'[c].result = Pending
            /\ ( frame'[c].h_restarts = 1 /\ frame'[c].pc = "done" ) =>
                  EndsAfterRestart( frame'[c] ) ]_vars

\* Both callers counted zero and the restarts of both run at once.
C17_Witness ==
    \A c \in Callers :
        /\ frame[c].op = "get"
        /\ frame[c].h_counts = << 0 >>
        /\ InRestart( frame[c] )

\* Both callers restarted the container, with the flag set when the later
\* restart began, and both calls ended with the "no available socks" error.
C17_WitnessBothFail ==
    /\ \A c \in Callers :
          /\ frame[c].h_restarts = 1
          /\ frame[c].result = Threw( NoSocksError )
    /\ \E c \in Callers : frame[c].h_cached
    /\ dante_config_initialised = FALSE

\* The call has gone past its reachability wait.
Proceeded( f ) ==
    \/ f.h_flags # << >>
    \/ f.h_loads > 0
    \/ f.h_counts # << >>
    \/ f.h_restarts > 0
    \/ f.h_registers # << >>

\* C18: a call of get_valid_socks5_config reads the flag, loads, counts,
\* restarts and asks for a lease only after a probe of the call returned
\* true, and that probe is the last of its wait; as long as every probe of
\* the call has returned false the call is still polling, a probe or the
\* 5-second delay after the latest probe pending, and has not ended.
C18_BlocksUntilReachable ==
    \A c \in Callers :
        LET f == frame[c]
            n == Len( f.h_reachable )
        IN  f.op = "get" =>
              /\ \A i \in 1..n : f.h_reachable[i] <=> ( i = n /\ Proceeded( f ) )
              /\ Proceeded( f ) => n > 0
              /\ ~ Proceeded( f ) =>
                    /\ f.pc \in { "probe", "wait" }
                    /\ f.result = Pending
                    /\ f.pc = "probe" => f.h_waits = n
                    /\ f.pc = "wait" => ( n > 0 /\ f.h_waits = n )

\* Three probes of a call found the endpoint unreachable and the call is
\* in its third delay.
C18_Witness ==
    \E c \in Callers :
        /\ frame[c].op = "get"
        /\ ~ HostMissing
        /\ frame[c].h_reachable = << FALSE, FALSE, FALSE >>
        /\ frame[c].h_probes = 3
        /\ frame[c].pc = "wait"

\* The second probe of a call found the endpoint reachable and the call
\* went on to its count.
C18_WitnessProceeds ==
    \E c \in Callers :
        /\ frame[c].op = "get"
        /\ frame[c].h_reachable = << FALSE, TRUE >>
        /\ frame[c].h_counts # << >>

\* What holds of a call of dante_server_ready at every moment.
ReadyCallInOrder( f ) ==
    LET n == Len( f.h_reachable )
        delays_over == IF f.pc = "wait" THEN f.h_waits - 1 ELSE f.h_waits
    IN  /\ \A i \in 1..n : f.h_reachable[i] => i = n
        /\ ( n > 0 /\ f.h_reachable[n] ) => f.pc = "done"
        /\ f.h_probes <= n + 1
        /\ f.h_probes = n + 1 <=> f.pc = "probe"
        /\ ~ HostMissing => f.h_probes = delays_over + 1
        /\ f.h_waits >= 1 => ( f.h_waits - 1 ) * ( RETRY_DELAY_MS - 1 ) < f.max_wait_ms
        /\ f.time_passed >= delays_over * ( RETRY_DELAY_MS - 1 )
        /\ f.pc = "wait" => f.time_passed < f.max_wait_ms
        /\ f.pc = "done" =>
              /\ n >= 1
              /\ f.result = Returned( f.h_reachable[n] )
              /\ ~ f.h_reachable[n] => f.time_passed >= f.max_wait_ms

\* C19: a call of dante_server_ready with a finite max_wait_ms ends; it
\* probes at least once, never after a probe that returned true, begins a
\* retry (a 5000 ms delay, then a probe) only while the elapsed time
\* measured after the previous delay is below max_wait_ms, every delay
\* adding at least 4999 ms to the elapsed time, and returns what its last
\* probe returned.
C19_FiniteWaitTerminates ==
    /\ [] ( frame[Main].op = "ready" => ReadyCallInOrder( frame[Main] ) )
    /\ ( frame[Main].pc # "done" ) ~> ( frame[Main].pc = "done" )

\* A call with max_wait_ms = 5000 probed twice, 5000 ms apart, found the
\* endpoint unreachable both times and returned false.
C19_Witness ==
    /\ frame[Main].op = "ready"
    /\ frame[Main].max_wait_ms = RETRY_DELAY_MS
    /\ ~ HostMissing
    /\ frame[Main].h_probes = 2
    /\ frame[Main].h_reachable = << FALSE, FALSE >>
    /\ frame[Main].time_passed = RETRY_DELAY_MS
    /\ frame[Main].result = Returned( FALSE )

\* A call with max_wait_ms = 5000 measured 4999 ms after its first delay,
\* ran a second delay and returned false.
C19_WitnessEarlyTimer ==
    /\ frame[Main].op = "ready"
    /\ frame[Main].max_wait_ms = RETRY_DELAY_MS
    /\ frame[Main].h_waits = 2
    /\ frame[Main].h_reachable = << FALSE, FALSE, FALSE >>
    /\ frame[Main].time_passed >= 2 * ( RETRY_DELAY_MS - 1 )
    /\ frame[Main].result = Returned( FALSE )

\* C20: a call of get_valid_socks5_config loads at most once, and only
\* before its first count; restarts at most once, and only after a first
\* count of zero; probes exactly once after the restart and asks for the
\* second count whatever that probe returned; counts at most twice; and,
\* made by a single caller, ends a call that restarted with the readiness
\* flag false.
C20_AtMostOneRecovery ==
    LET f == frame[Main]
    IN  f.op = "get" =>
          /\ f.h_loads <= 1
          /\ InLoad( f ) => ( f.h_loads = 1 /\ f.h_counts = << >> /\ f.h_restarts = 0 )
          /\ f.h_restarts <= 1
          /\ f.h_restarts = 1 <=> ( f.h_counts # << >> /\ f.h_counts[1] = 0 )
          /\ InRestart( f ) => Len( f.h_counts ) = 1
          /\ Len( f.h_reprobe ) <= 1
          /\ ~ HostMissing =>
                f.h_probes = Len( f.h_reachable ) + Len( f.h_reprobe )
                                + ( IF f.pc \in { "probe", "g_reprobe" } THEN 1 ELSE 0 )
          /\ f.pc = "g_reprobe" => ( RestartReturned( f ) /\ f.h_reprobe = << >> )
          /\ Len( f.h_counts ) <= 2
          /\ Len( f.h_counts ) = 2 => Len( f.h_reprobe ) = 1
          /\ ( f.h_restarts = 1 /\ f.pc = "done" ) =>
                /\ Len( f.h_counts ) = 2
                /\ dante_config_initialised = FALSE

\* The flag was set when the restart began, the probe after the restart
\* found the endpoint unreachable, the count was asked for again and the
\* call ended.
C20_Witness ==
    /\ frame[Main].op = "get"
    /\ frame[Main].h_loads = 1
    /\ frame[Main].h_cached
    /\ frame[Main].h_reprobe = << FALSE >>
    /\ Len( frame[Main].h_counts ) = 2
    /\ frame[Main].pc = "done"
    /\ dante_config_initialised = FALSE

====
